---- MODULE Spec2Model ----
(***************************************************************************)
(* Model of frontend/app.js (the last of the three versions in the file,   *)
(* lines 327-756): the Bagh Chal client controller.  The program state is  *)
(* the module-level variables of the script; every async function is a     *)
(* coroutine that runs synchronously from an event (a user event or the    *)
(* settlement of a remote call) up to its next remote call.  The remote    *)
(* collaborator is the environment: every response is drawn from a bounded *)
(* set of well-formed responses.                                           *)
(***************************************************************************)
EXTENDS Integers, Sequences, FiniteSets, TLC

(* ------------------------------ bounds -------------------------------- *)
\* longest move record the remote ever reports
MaxMoves == 2
\* number of sessions the remote creates in one run
MaxGames == 2
\* number of coroutines that may wait for the remote at the same time
MaxTasks == 2
\* longest text handed to parsePGN on its own
MaxTextLen == 5

(* --------------------------- JavaScript values ------------------------ *)
Null == [kind |-> "null"]
Undefined == [kind |-> "undefined"]
Truthy(v) == v.kind \notin {"null", "undefined"}

\* a string is a tuple of one-character strings; undefinedStr stands for a
\* property that is absent (pgn of an error body)
undefinedStr == <<"undefined">>
Digit(n) == CASE n = 0 -> "0" [] n = 1 -> "1" [] n = 2 -> "2" [] n = 3 -> "3"
              [] n = 4 -> "4" [] n = 5 -> "5" [] n = 6 -> "6" [] n = 7 -> "7"
              [] n = 8 -> "8" [] n = 9 -> "9"

(* ------------------------------ parsePGN ------------------------------ *)
IsSpace(ch) == ch \in {" ", "\n", "\t"}

\* String.prototype.trim
Trim(str) ==
    LET keep == {i \in 1..Len(str) : ~IsSpace(str[i])}
        Min(S) == CHOOSE x \in S : \A y \in S : x <= y
        Max(S) == CHOOSE x \in S : \A y \in S : x >= y
    IN IF keep = {} THEN <<>> ELSE SubSeq(str, Min(keep), Max(keep))

\* String.prototype.split(/\s+/): every maximal run of white space is one
\* separator; a separator at either end leaves an empty string there
RECURSIVE SplitFrom(_, _, _, _, _)
SplitFrom(str, i, cur, acc, inSep) ==
    IF i > Len(str) THEN Append(acc, cur)
    ELSE IF IsSpace(str[i])
         THEN IF inSep THEN SplitFrom(str, i + 1, cur, acc, TRUE)
              ELSE SplitFrom(str, i + 1, <<>>, Append(acc, cur), TRUE)
         ELSE SplitFrom(str, i + 1, Append(cur, str[i]), acc, FALSE)

SplitWs(str) == SplitFrom(str, 1, <<>>, <<>>, FALSE)

EndsWithDot(m) == Len(m) > 0 /\ m[Len(m)] = "."

RECURSIVE Filter(_, _)
Filter(toks, keepDot) ==
    IF toks = <<>> THEN <<>>
    ELSE LET m == Head(toks)
             rest == Filter(Tail(toks), keepDot)
         IN IF Len(m) > 0 /\ (keepDot \/ ~EndsWithDot(m)) THEN <<m>> \o rest ELSE rest

\* variant of parsePGN that keeps the move-number labels
parsePGN_keepLabels(pgn) ==
    IF pgn = undefinedStr \/ pgn = <<>> THEN <<>>
    ELSE Filter(SplitWs(Trim(pgn)), TRUE)

parsePGN(pgn) ==
    IF pgn = undefinedStr \/ pgn = <<>> THEN <<>>
    ELSE Filter(SplitWs(Trim(pgn)), FALSE)

(* ------------------- responses of the remote collaborator ------------- *)
\* the move record of a game with n moves, as the remote writes it:
\* "1. 11 55 2. 12 ..." (a move-number label before every odd move)
RECURSIVE PgnText(_)
PgnText(n) ==
    IF n = 0 THEN <<>>
    ELSE LET sep == IF n = 1 THEN <<>> ELSE <<" ">>
             label == IF n % 2 = 1 THEN <<Digit((n + 1) \div 2), ".", " ">> ELSE <<>>
             tok == IF n % 2 = 1 THEN <<"1", Digit((((n + 1) \div 2) % 5) + 1)>>
                    ELSE <<"5", "5", "4", "4">>
         IN PgnText(n - 1) \o sep \o label \o tok

\* boards: 5 rows of 5 cells, "" empty, "G" goat, "B" tiger
BoardEarly == << <<"B", "", "", "", "B">>,
                 <<"", "G", "G", "", "">>,
                 <<"", "", "", "", "">>,
                 <<"", "", "", "", "">>,
                 <<"B", "", "", "", "B">> >>
BoardLate == << <<"B", "G", "G", "G", "B">>,
                <<"G", "G", "G", "G", "G">>,
                <<"G", "", "", "G", "G">>,
                <<"G", "G", "", "G", "G">>,
                <<"B", "G", "", "", "B">> >>

\* the positions the remote reports: placing phase, tiger to move, goat to
\* move after all goats are placed, and a finished game
Positions ==
    { [board |-> BoardEarly, turn |-> "G", goats_placed |-> 2, game_over |-> FALSE],
      [board |-> BoardEarly, turn |-> "B", goats_placed |-> 2, game_over |-> FALSE],
      [board |-> BoardLate, turn |-> "G", goats_placed |-> 20, game_over |-> FALSE],
      [board |-> BoardLate, turn |-> "B", goats_placed |-> 20, game_over |-> TRUE] }

\* a GameSnapshot body; req is the request it answers: Null for the live
\* position, the session and index for a seek
Snapshot(p, req, pgn) ==
    [kind |-> "snap", req |-> req, board |-> p.board, turn |-> p.turn,
     goats_placed |-> p.goats_placed, game_over |-> p.game_over, pgn |-> pgn]

\* a non-success response with a JSON body {detail: reason}
ErrBody == [kind |-> "err"]

\* GET /games/{id}, POST /games/{id}/undo: the live position.  The script
\* reads only pgn and game_over of it, so two positions stand for all.
LiveSnapshots ==
    {Snapshot(p, Null, PgnText(n)) : p \in {q \in Positions : q.board = BoardLate},
                                     n \in 0..MaxMoves}
\* GET /games/{id}/seek/{k}: the position of session id after its first k moves
SeekSnapshots(id, k) ==
    {Snapshot(p, [kind |-> "seek", game |-> id.n, index |-> k], PgnText(k)) : p \in Positions}

\* property reads on a response body (absent properties read as undefined)
pgnOf(data) == IF data.kind = "snap" THEN data.pgn ELSE undefinedStr
game_overOf(data) == data.kind = "snap" /\ data.game_over
game_idOf(data) == IF data.kind = "created" THEN [kind |-> "id", n |-> data.n] ELSE Undefined

(* ------------------------------- state -------------------------------- *)
VARIABLES
    gameId,             \* Null, Undefined or [kind |-> "id", n |-> k]
    liveGameState,      \* Null, ErrBody or a snapshot
    viewedGameState,    \* Null or a snapshot
    currentMoveIndex,
    totalMoves,
    selectedSpot,       \* Null or [kind |-> "spot", r |-> r, c |-> c]
    isRequestPending,
    inflight,           \* the coroutines that wait for a remote call to settle
    nextGameId,         \* the remote's next fresh session id
    lastEvent,          \* the event handled by the last step
    seekDone,           \* a seek for the session gameId has succeeded
    historyText,        \* the argument of a call of parsePGN on its own
    moves               \* what that call returned

session == <<gameId, liveGameState, viewedGameState, currentMoveIndex, totalMoves,
             selectedSpot>>
vars == <<gameId, liveGameState, viewedGameState, currentMoveIndex, totalMoves,
          selectedSpot, isRequestPending, inflight, nextGameId, lastEvent,
          seekDone, historyText, moves>>

\* the script's variables as one record, threaded through a handler's code
Globals ==
    [gameId |-> gameId, liveGameState |-> liveGameState,
     viewedGameState |-> viewedGameState, currentMoveIndex |-> currentMoveIndex,
     totalMoves |-> totalMoves, selectedSpot |-> selectedSpot,
     isRequestPending |-> isRequestPending]

\* a coroutine: the operation it runs (op), the remote call it waits for (pc),
\* whether it is inside triggerBotMove (bot), the arguments of a waiting
\* seekToMove (silent, idx), the session the call was addressed to (gid), the
\* string it sent (arg), the session variables when the operation was invoked
\* (pre), the remote calls the operation has issued so far (calls) and the
\* outcomes of those that have settled (outs); pre, calls and outs are kept
\* only when the events are recorded (log)
SessionOf(g) ==
    <<g.gameId, g.liveGameState, g.viewedGameState, g.currentMoveIndex, g.totalMoves>>

NewTask(op, arg, g, log) ==
    [op |-> op, pc |-> "none", bot |-> FALSE, silent |-> FALSE, idx |-> 0,
     gid |-> Null, arg |-> arg, log |-> log,
     pre |-> IF log THEN SessionOf(g) ELSE <<>>, calls |-> <<>>, outs |-> <<>>]

Issue(t, pc, g) ==
    [t EXCEPT !.pc = pc, !.gid = g.gameId, !.calls = IF t.log THEN Append(@, pc) ELSE @]

\* what a run of handler code leaves: the variables, the coroutine, and whether
\* the coroutine now waits for a remote call (else it has returned)
Waiting(g, t) == [g |-> g, t |-> t, waits |-> TRUE]
Returned(g, t) == [g |-> g, t |-> t, waits |-> FALSE]

(* -------------------------------- guards ------------------------------ *)
\* line 370
startNewGame_guard(g) == ~g.isRequestPending
\* line 416
executeLoad_guard(g) == ~g.isRequestPending
\* line 468 (the _noPending variants leave out the test of isRequestPending)
seekToMove_guard_noPending(g) == Truthy(g.gameId)
seekToMove_guard(g) == Truthy(g.gameId) /\ ~g.isRequestPending
\* line 504
makeMove_guard_noPending(g) == Truthy(g.gameId)
makeMove_guard(g) == Truthy(g.gameId) /\ ~g.isRequestPending
\* line 541
triggerBotMove_guard(g) == Truthy(g.gameId) /\ ~g.isRequestPending
\* line 561
undoMove_guard_noPending(g) == Truthy(g.gameId)
undoMove_guard(g) == Truthy(g.gameId) /\ ~g.isRequestPending

\* the finally blocks of startNewGame, executeLoad, makeMove, triggerBotMove
\* and undoMove (finally_keepPending: a variant that releases nothing)
finally_keepPending(g) == g
finally(g) == [g EXCEPT !.isRequestPending = FALSE]

(* ------------------------------ seekToMove ---------------------------- *)
\* lines 469-470 (variant: line 470, the upper limit, left out)
Clamp_noUpper(index, total) == IF index < 0 THEN 0 ELSE index
Clamp(index, total) ==
    IF index < 0 THEN 0 ELSE IF index > total THEN total ELSE index

\* lines 467-481: up to the fetch of /seek/{currentMoveIndex}.  ret is what
\* the caller goes on with when seekToMove returns at line 468.
seekToMove(g, t, index, silent, ret) ==
    IF ~seekToMove_guard(g) THEN ret
    ELSE LET idx == Clamp(index, g.totalMoves)
             g1 == [g EXCEPT !.currentMoveIndex = idx,
                             !.isRequestPending = IF silent THEN @ ELSE TRUE]
             t1 == [Issue(t, "seek", g1) EXCEPT !.silent = silent, !.idx = idx]
         IN Waiting(g1, t1)

\* lines 482-501: the seek call has settled (variant: lines 497-500, the
\* release of an explicit seek, left out)
seekToMove_settled_noRelease(g, t, out, data) ==
    IF out = "ok" THEN [g EXCEPT !.viewedGameState = data] ELSE g
\* (variant: line 487 also replaces the live snapshot)
seekToMove_settled_live(g, t, out, data) ==
    LET g1 == IF out = "ok" THEN [g EXCEPT !.viewedGameState = data, !.liveGameState = data]
              ELSE g
    IN IF t.silent THEN g1 ELSE finally(g1)
seekToMove_settled(g, t, out, data) ==
    LET g1 == IF out = "ok" THEN [g EXCEPT !.viewedGameState = data] ELSE g
    IN IF t.silent THEN g1 ELSE finally(g1)

(* ---------------------------- triggerBotMove -------------------------- *)
\* lines 540-549, called from makeMove line 528; on return makeMove's finally
\* (lines 534-537) runs
triggerBotMove(g, t) ==
    IF ~triggerBotMove_guard(g) THEN Returned(finally(g), t)
    ELSE LET g1 == [g EXCEPT !.isRequestPending = TRUE]
         IN Waiting(g1, [Issue(t, "bot", g1) EXCEPT !.bot = TRUE])

(* --------------- what runs after `await fetchGameState()` ------------- *)
\* startNewGame 385-391, executeLoad 441-447, makeMove 526-537,
\* triggerBotMove 551-557 (followed by makeMove 534-537)
afterFetch(g, t) ==
    IF t.op \in {"startNewGame", "executeLoad"} THEN Returned(finally(g), t)
    ELSE IF t.bot THEN Returned(finally(finally(g)), t)
    ELSE IF g.liveGameState = Null
         THEN Returned(finally(g), t)   \* TypeError at line 527, caught at 531
         ELSE IF ~game_overOf(g.liveGameState) THEN triggerBotMove(g, t)
              ELSE Returned(finally(g), t)

\* what runs after the silent seekToMove returns: undoMove 589-595, or the
\* end of fetchGameState and then the caller of fetchGameState
afterSilentSeek(g, t) ==
    IF t.op = "undoMove" THEN Returned(finally(g), t) ELSE afterFetch(g, t)

(* ----------------------------- fetchGameState ------------------------- *)
\* lines 451-454
fetchGameState(g, t) ==
    IF ~Truthy(g.gameId) THEN afterFetch(g, t) ELSE Waiting(g, Issue(t, "fetch", g))

\* lines 455-464: the body is read whatever the status; a failed call or an
\* unreadable body is caught at line 462
\* (variant: line 458, the new totalMoves, left out)
fetchGameState_settled_noCount(g, t, out, data) ==
    IF out = "throw" THEN afterFetch(g, t)
    ELSE LET g1 == [g EXCEPT !.liveGameState = data]
         IN seekToMove(g1, t, g1.totalMoves, TRUE, afterFetch(g1, t))
fetchGameState_settled(g, t, out, data) ==
    IF out = "throw" THEN afterFetch(g, t)
    ELSE LET g1 == [g EXCEPT !.liveGameState = data,
                             !.totalMoves = Len(parsePGN(pgnOf(data)))]
         IN seekToMove(g1, t, g1.totalMoves, TRUE, afterFetch(g1, t))

(* ----------------------------- startNewGame --------------------------- *)
\* lines 369-379
startNewGame(g, t) ==
    IF ~startNewGame_guard(g) THEN Returned(g, t)
    ELSE LET g1 == [g EXCEPT !.isRequestPending = TRUE]
         IN Waiting(g1, Issue(t, "create", g1))

\* lines 380-391: the status is not looked at; a body without game_id gives
\* gameId = undefined
startNewGame_settled(g, t, out, data) ==
    IF out = "throw" THEN Returned(finally(g), t)
    ELSE fetchGameState([g EXCEPT !.gameId = game_idOf(data), !.selectedSpot = Null], t)

(* ------------------------------ executeLoad --------------------------- *)
\* lines 415-426
executeLoad(g, t) ==
    IF ~executeLoad_guard(g) THEN Returned(g, t)
    ELSE LET g1 == [g EXCEPT !.isRequestPending = TRUE]
         IN Waiting(g1, Issue(t, "load", g1))

\* lines 428-447
executeLoad_settled(g, t, out, data) ==
    CASE out = "throw" -> Returned(finally(g), t)
      [] out = "reject" -> Returned(finally([g EXCEPT !.isRequestPending = FALSE]), t)
      [] out = "ok" ->
           fetchGameState([g EXCEPT !.gameId = game_idOf(data), !.selectedSpot = Null], t)

(* -------------------------------- makeMove ---------------------------- *)
\* lines 503-513
makeMove(g, t) ==
    IF ~makeMove_guard(g) THEN Returned(g, t)
    ELSE LET g1 == [g EXCEPT !.isRequestPending = TRUE]
         IN Waiting(g1, Issue(t, "move", g1))

\* lines 514-522 (variant: line 517 left out)
makeMove_rejected_keepSelection(g) == [g EXCEPT !.isRequestPending = FALSE]
makeMove_rejected(g) == [g EXCEPT !.selectedSpot = Null, !.isRequestPending = FALSE]

\* lines 514-537
makeMove_settled(g, t, out, data) ==
    CASE out = "throw" -> Returned(finally(g), t)
      [] out = "reject" -> Returned(finally(makeMove_rejected(g)), t)
      [] out = "ok" -> fetchGameState(g, t)

\* lines 550-557, then makeMove 534-537: the response is not looked at
triggerBotMove_settled(g, t, out, data) ==
    IF out = "throw" THEN Returned(finally(finally(g)), t)
    ELSE fetchGameState(g, t)

(* -------------------------------- undoMove ---------------------------- *)
\* lines 560-569
undoMove(g, t) ==
    IF ~undoMove_guard(g) THEN Returned(g, t)
    ELSE LET g1 == [g EXCEPT !.isRequestPending = TRUE]
         IN Waiting(g1, Issue(t, "undo", g1))

\* lines 571-577 (variant: the body is applied without the test of res.ok)
undoMove_rejected_applied(g, data) ==
    [g EXCEPT !.liveGameState = data, !.totalMoves = Len(parsePGN(pgnOf(data))),
              !.isRequestPending = FALSE]
undoMove_rejected(g, data) == [g EXCEPT !.isRequestPending = FALSE]

\* lines 571-595
undoMove_settled(g, t, out, data) ==
    CASE out = "throw" -> Returned(finally(g), t)
      [] out = "reject" -> Returned(finally(undoMove_rejected(g, data)), t)
      [] out = "ok" ->
           LET g1 == [g EXCEPT !.liveGameState = data,
                               !.totalMoves = Len(parsePGN(pgnOf(data)))]
           IN seekToMove(g1, t, g1.totalMoves, TRUE, Returned(finally(g1), t))

(* ----------------------------- handleSpotClick ------------------------ *)
Spot(r, c) == [kind |-> "spot", r |-> r, c |-> c]
NoMove == [submit |-> FALSE, token |-> <<>>]
Submit(token) == [submit |-> TRUE, token |-> token]
Click(g, m) == [g |-> g, m |-> m]

\* line 726: the placement token `${r}${c}`
placementToken(r, c) == <<Digit(r), Digit(c)>>

\* line 751: moveStr, the movement token
moveStr(sel, r, c) == <<Digit(sel.r), Digit(sel.c), Digit(r), Digit(c)>>

\* line 742: the clicked cell is the selected one (variant: the column is
\* not compared)
sameSpot_rowOnly(sel, r, c) == r = sel.r
sameSpot(sel, r, c) == r = sel.r /\ c = sel.c

\* lines 713-719: the click is ignored (variant: line 716 left out)
handleSpotClick_ignored_anyIndex(g) ==
    g.viewedGameState = Null \/ g.viewedGameState.game_over
handleSpotClick_ignored(g) ==
    \/ g.viewedGameState = Null
    \/ g.viewedGameState.game_over
    \/ g.currentMoveIndex # g.totalMoves

\* lines 712-756: the variables after the click and the move it submits
handleSpotClick(g, r, c, cellVal) ==
    IF handleSpotClick_ignored(g) THEN Click(g, NoMove)
    ELSE LET currentTurn == g.viewedGameState.turn
             placingPhase == currentTurn = "G" /\ g.viewedGameState.goats_placed < 20
             sel == g.selectedSpot
         IN IF placingPhase
            THEN IF cellVal = "" THEN Click(g, Submit(placementToken(r, c)))
                 ELSE Click(g, NoMove)
            ELSE IF ~Truthy(sel)
                 THEN IF cellVal = currentTurn
                      THEN Click([g EXCEPT !.selectedSpot = Spot(r, c)], NoMove)
                      ELSE Click(g, NoMove)
                 ELSE IF sameSpot(sel, r, c)
                      THEN Click([g EXCEPT !.selectedSpot = Null], NoMove)
                      ELSE IF cellVal = currentTurn
                           THEN Click([g EXCEPT !.selectedSpot = Spot(r, c)], NoMove)
                           ELSE IF cellVal = ""
                                THEN Click(g, Submit(moveStr(sel, r, c)))
                                ELSE Click(g, NoMove)

(* ------------------------------- events ------------------------------- *)
\* the cells the user clicks: a tiger, two goats and an empty cell
ClickSpots == {<<1, 1>>, <<2, 2>>, <<2, 3>>, <<3, 2>>}
CellVals == {"", "G", "B"}
\* the texts the user pastes or uploads
LoadTexts == {PgnText(MaxMoves)}
Outcomes == {"ok", "reject", "throw"}
Unread == [kind |-> "unread"]

RemoveAt(seq, i) == SubSeq(seq, 1, i - 1) \o SubSeq(seq, i + 1, Len(seq))

\* the event of a step: what ran (a: "settle", "handleSpotClick", the name of
\* the operation a user event started, or "refused" when the operation
\* returned at its first line), for a settled call its place in inflight (i),
\* the call (pc) and its outcome (out), isRequestPending when the event
\* arrived (busy), the move token a click submitted (token), the remote calls
\* the step issued (issued), whether the coroutine returned, and the input of
\* the event (input): the cell of a click that was not ignored, the index a
\* seek was asked for
Event(a, t, i, pc, out, r, input) ==
    [a |-> IF a \in {"settle", "handleSpotClick"} \/ r.waits THEN a ELSE "refused",
     i |-> i, pc |-> pc, out |-> out, busy |-> isRequestPending,
     token |-> IF a = "handleSpotClick" THEN t.arg ELSE <<>>,
     issued |-> SubSeq(r.t.calls, Len(t.calls) + 1, Len(r.t.calls)),
     returned |-> ~r.waits,
     input |-> IF a \in {"settle", "handleSpotClick"} \/ r.waits THEN input ELSE Null]

SetGlobals(g) ==
    /\ gameId' = g.gameId
    /\ liveGameState' = g.liveGameState
    /\ viewedGameState' = g.viewedGameState
    /\ currentMoveIndex' = g.currentMoveIndex
    /\ totalMoves' = g.totalMoves
    /\ selectedSpot' = g.selectedSpot
    /\ isRequestPending' = g.isRequestPending

\* a user event invokes an operation: r is what its code leaves; log says
\* whether lastEvent records the event
Invoke(a, t, r, input, log) ==
    /\ r.waits => Len(inflight) < MaxTasks
    /\ SetGlobals(r.g)
    /\ inflight' = IF r.waits THEN Append(inflight, r.t) ELSE inflight
    /\ lastEvent' = IF log THEN Event(a, t, 0, "none", "none", r, input) ELSE lastEvent
    /\ UNCHANGED <<nextGameId, seekDone, historyText, moves>>

\* the new-game button (line 357)
StartNewGame(log) ==
    LET t == NewTask("startNewGame", <<>>, Globals, log)
    IN Invoke("startNewGame", t, startNewGame(Globals, t), Null, log)

\* a pasted or uploaded text (lines 394-413)
LoadGame(log) ==
    \E pgn \in LoadTexts :
        LET t == NewTask("executeLoad", pgn, Globals, log)
        IN Invoke("executeLoad", t, executeLoad(Globals, t), Null, log)

\* the undo button (line 358)
UndoMove(log) ==
    LET t == NewTask("undoMove", <<>>, Globals, log)
    IN Invoke("undoMove", t, undoMove(Globals, t), Null, log)

\* the navigation buttons (lines 364-367) and the items of the history panel
\* (lines 648, 657), which updateUI draws from the live move record once
\* there is a viewed snapshot
NavTargets ==
    {0, currentMoveIndex - 1, currentMoveIndex + 1, totalMoves}
    \cup (IF viewedGameState # Null
          THEN 1..Len(parsePGN(pgnOf(liveGameState))) ELSE {})

SeekToMove(log) ==
    \E index \in NavTargets :
        LET t == NewTask("seekToMove", <<>>, Globals, log)
        IN Invoke("seekToMove", t,
                  seekToMove(Globals, t, index, FALSE, Returned(Globals, t)),
                  [kind |-> "index", n |-> index], log)

\* a click on a cell of the board (line 687); the cell's marker is the one
\* renderBoard read from the viewed snapshot
HandleSpotClick(log) ==
    \E rc \in ClickSpots :
      \E cellVal \in (IF viewedGameState # Null
                      THEN {viewedGameState.board[rc[1]][rc[2]]} ELSE CellVals) :
        LET k == handleSpotClick(Globals, rc[1], rc[2], cellVal)
            t == NewTask("makeMove", k.m.token, k.g, log)
            r == IF k.m.submit THEN makeMove(k.g, t) ELSE Returned(k.g, t)
        IN Invoke("handleSpotClick", t, r,
                  IF handleSpotClick_ignored(Globals) THEN Null ELSE Spot(rc[1], rc[2]),
                  log)

\* the bodies the remote may answer with
Responses(t, out) ==
    CASE out = "throw" -> {Unread}
      [] out = "reject" -> {ErrBody}
      [] out = "ok" ->
           CASE t.pc \in {"create", "load"} ->
                  IF nextGameId <= MaxGames
                  THEN {[kind |-> "created", n |-> nextGameId]} ELSE {}
             [] t.pc \in {"fetch", "undo"} -> LiveSnapshots
             [] t.pc = "seek" -> SeekSnapshots(t.gid, t.idx)
             [] t.pc \in {"move", "bot"} -> {Unread}

\* the code that runs when the call coroutine t waits for settles
Resume(g, t, out, data) ==
    CASE t.pc = "create" -> startNewGame_settled(g, t, out, data)
      [] t.pc = "load" -> executeLoad_settled(g, t, out, data)
      [] t.pc = "move" -> makeMove_settled(g, t, out, data)
      [] t.pc = "bot" -> triggerBotMove_settled(g, t, out, data)
      [] t.pc = "undo" -> undoMove_settled(g, t, out, data)
      [] t.pc = "fetch" -> fetchGameState_settled(g, t, out, data)
      [] t.pc = "seek" ->
           LET g1 == seekToMove_settled(g, t, out, data)
           IN IF t.silent THEN afterSilentSeek(g1, t) ELSE Returned(g1, t)

\* a remote call settles: success, a non-success response, or a failure of
\* the transport (or of reading the body)
Settle(log) ==
    \E i \in DOMAIN inflight, out \in Outcomes :
      \E data \in Responses(inflight[i], out) :
        LET t == [inflight[i] EXCEPT !.outs = IF log THEN Append(@, out) ELSE @]
            r == Resume(Globals, t, out, data)
        IN /\ SetGlobals(r.g)
           /\ inflight' = IF r.waits THEN [inflight EXCEPT ![i] = r.t]
                          ELSE RemoveAt(inflight, i)
           /\ nextGameId' = IF data.kind = "created" THEN nextGameId + 1 ELSE nextGameId
           /\ lastEvent' = IF log THEN Event("settle", t, i, t.pc, out, r, Null) ELSE lastEvent
           /\ seekDone' = IF t.pc = "seek" /\ out = "ok" /\ t.gid = r.g.gameId THEN TRUE
                          ELSE IF r.g.gameId # gameId THEN FALSE ELSE seekDone
           /\ UNCHANGED <<historyText, moves>>

\* no call of parsePGN has returned
NotParsed == [kind |-> "none"]

\* the script's variables when the page has loaded (lines 328-334)
Loaded ==
    /\ gameId = Null
    /\ liveGameState = Null
    /\ viewedGameState = Null
    /\ currentMoveIndex = 0
    /\ totalMoves = 0
    /\ selectedSpot = Null
    /\ isRequestPending = FALSE
    /\ inflight = <<>>
    /\ nextGameId = 1
    /\ lastEvent = [a |-> "load", i |-> 0, pc |-> "none", out |-> "none", busy |-> FALSE,
                    token |-> <<>>, issued |-> <<>>, returned |-> TRUE, input |-> Null]

Init == Loaded /\ seekDone = FALSE /\ historyText = undefinedStr /\ moves = NotParsed

Next ==
    \/ StartNewGame(TRUE)
    \/ LoadGame(TRUE)
    \/ UndoMove(TRUE)
    \/ SeekToMove(TRUE)
    \/ HandleSpotClick(TRUE)
    \/ Settle(TRUE)

Spec == Init /\ [][Next]_vars

\* the same steps without the record of the last event, and every remote
\* call settles
NextUnlogged ==
    \/ StartNewGame(FALSE)
    \/ LoadGame(FALSE)
    \/ UndoMove(FALSE)
    \/ SeekToMove(FALSE)
    \/ HandleSpotClick(FALSE)
    \/ Settle(FALSE)

FairSpec == Init /\ [][NextUnlogged]_vars /\ WF_vars(Settle(FALSE))

(* --------------------------- parsePGN on its own ---------------------- *)
\* the texts parsePGN is called with: every string of at most MaxTextLen
\* characters of move digits, the period of a label and white space, and a
\* missing text
Alphabet == {"1", "2", ".", " ", "\n"}
Texts == UNION {[1..n -> Alphabet] : n \in 0..MaxTextLen} \cup {undefinedStr}

ParseInit == Loaded /\ seekDone = FALSE /\ historyText \in Texts /\ moves = NotParsed

\* a call parsePGN(historyText), as at lines 457, 581 and 632
ParsePGN ==
    /\ moves = NotParsed
    /\ moves' = [kind |-> "moves", list |-> parsePGN(historyText)]
    /\ UNCHANGED <<session, isRequestPending, inflight, nextGameId, lastEvent, seekDone,
                   historyText>>

ParseNext == ParsePGN

ParseSpec == ParseInit /\ [][ParseNext]_vars

(* ------------------------------ properties ---------------------------- *)
\* the coroutine whose call settles in this step, and whether the step is
\* the last of an operation
Settled == inflight[lastEvent'.i]
SettledOuts == Append(Settled.outs, lastEvent'.out)
Settles(pc, out) ==
    lastEvent'.a = "settle" /\ lastEvent'.pc = pc /\ lastEvent'.out = out
Returns(op) ==
    lastEvent'.a = "settle" /\ lastEvent'.returned /\ Settled.op = op
Idle == ~isRequestPending /\ inflight = <<>>

\* C1: in every reachable state 0 <= currentMoveIndex <= totalMoves.
C1_IndexInRange == 0 <= currentMoveIndex /\ currentMoveIndex <= totalMoves

\* C2: at most one operation has a remote call outstanding at any time.
C2_AtMostOneOutstanding == Len(inflight) <= 1

\* a second submit-move arrives while a call is outstanding
C2_Witness ==
    /\ Len(inflight) = 1
    /\ lastEvent.a = "handleSpotClick" /\ lastEvent.busy /\ lastEvent.token # <<>>

\* C3: an operation (new game, load, submit move, undo, explicit seek) invoked
\* while isRequestPending is true issues no remote call and leaves the session
\* variables, the selection and isRequestPending unchanged.
C3_BusyInvocationIsNoOp ==
    [][(/\ isRequestPending
        /\ \/ lastEvent'.a \in {"refused", "startNewGame", "executeLoad", "undoMove",
                                "seekToMove"}
           \/ lastEvent'.a = "handleSpotClick" /\ lastEvent'.token # <<>>)
       => /\ UNCHANGED <<session, isRequestPending, inflight>>
          /\ lastEvent'.issued = <<>>]_vars

\* an operation was invoked while a call was outstanding and returned at once
C3_Witness ==
    lastEvent.a = "refused" /\ lastEvent.busy /\ isRequestPending /\ Len(inflight) = 1

\* C4: when a submit move whose submit call and live fetch both succeeded
\* returns, currentMoveIndex = totalMoves.
C4_MoveResyncsView ==
    [][(/\ Returns("makeMove")
        /\ Len(SettledOuts) >= 2
        /\ SettledOuts[1] = "ok" /\ SettledOuts[2] = "ok")
       => currentMoveIndex' = totalMoves']_vars

\* C5: when a submit move was accepted and the refreshed live snapshot is not
\* game over, a bot-move request is issued before the operation returns.
C5_BotMoveChained ==
    [][(/\ Returns("makeMove")
        /\ Len(SettledOuts) >= 2
        /\ SettledOuts[1] = "ok" /\ SettledOuts[2] = "ok"
        /\ ~game_overOf(liveGameState'))
       => \E k \in DOMAIN Settled.calls : Settled.calls[k] = "bot"]_vars

\* C6: when a submit-move operation returns, whatever its outcome, the
\* selection is None.
C6_SelectionClearedAfterSubmit ==
    [][Returns("makeMove") => selectedSpot' = Null]_vars

\* C7: every operation that sets isRequestPending eventually clears it and
\* returns, provided every remote call settles.
C7_PendingEventuallyCleared == isRequestPending ~> Idle

\* an operation is past its first call and still holds the flag
C7_Witness ==
    isRequestPending /\ \E i \in DOMAIN inflight : inflight[i].pc = "fetch"

\* C8: a board click with no viewed snapshot, with a finished game viewed, or
\* with currentMoveIndex # totalMoves issues no remote call and changes
\* neither the selection nor the session variables.
C8_IgnoredClickChangesNothing ==
    [][(/\ lastEvent'.a = "handleSpotClick"
        /\ \/ viewedGameState = Null
           \/ viewedGameState.game_over
           \/ currentMoveIndex # totalMoves)
       => /\ UNCHANGED <<session, isRequestPending, inflight>>
          /\ lastEvent'.issued = <<>>]_vars

\* a click while an earlier position is viewed and no call is outstanding
C8_Witness ==
    /\ lastEvent.a = "handleSpotClick" /\ ~lastEvent.busy
    /\ viewedGameState # Null /\ ~viewedGameState.game_over
    /\ currentMoveIndex # totalMoves

\* C9: when the remote rejects an undo, the session variables and the
\* selection are what they were before the undo and isRequestPending is
\* cleared.
C9_RejectedUndoChangesNothing ==
    [][/\ lastEvent'.a = "undoMove" => UNCHANGED session
       /\ Settles("undo", "reject")
          => /\ UNCHANGED session
             /\ <<gameId', liveGameState', viewedGameState', currentMoveIndex',
                  totalMoves'>> = Settled.pre
             /\ ~isRequestPending']_vars

\* an undo of a game without moves was rejected
C9_Witness ==
    /\ lastEvent.a = "settle" /\ lastEvent.pc = "undo" /\ lastEvent.out = "reject"
    /\ Truthy(gameId) /\ totalMoves = 0

\* C10: when the first remote call of an operation fails in the transport,
\* the session variables and the selection are what they were before the
\* operation.
C10_TransportFailureChangesNothing ==
    [][(/\ lastEvent'.a = "settle" /\ lastEvent'.out = "throw"
        /\ Len(Settled.calls) = 1)
       => /\ selectedSpot' = selectedSpot
          /\ <<gameId', liveGameState', viewedGameState', currentMoveIndex',
               totalMoves'>> = Settled.pre]_vars

\* the viewed snapshot is the live position, so that a click on it is not
\* ignored; the placing phase; the marker of the cell the step clicked
AtLivePosition ==
    /\ viewedGameState # Null /\ ~viewedGameState.game_over
    /\ currentMoveIndex = totalMoves
PlacingPhase == viewedGameState.turn = "G" /\ viewedGameState.goats_placed < 20
ClickedVal == viewedGameState.board[lastEvent'.input.r][lastEvent'.input.c]

\* the step issues exactly one submit-move call, with this token
SubmitsMove(token) ==
    /\ lastEvent'.issued = <<"move">>
    /\ Len(inflight') = 1
    /\ inflight'[1].pc = "move" /\ inflight'[1].arg = token

\* C11: in the placing phase, at the live position and while Idle, a click on
\* an empty cell (r,c) issues exactly one submit-move call whose token is the
\* digit r then the digit c; a click on an occupied cell issues no remote call
\* and leaves the selection unchanged.
C11_PlacementClick ==
    [][(/\ lastEvent'.a = "handleSpotClick" /\ lastEvent'.input # Null
        /\ Idle /\ AtLivePosition /\ PlacingPhase)
       => IF ClickedVal = ""
          THEN SubmitsMove(<<Digit(lastEvent'.input.r), Digit(lastEvent'.input.c)>>)
          ELSE /\ lastEvent'.issued = <<>>
               /\ UNCHANGED <<selectedSpot, inflight>>]_vars

\* C12: in the movement phase with the cell (fr,fc) selected, at the live
\* position and while Idle, a click on an empty cell (tr,tc) issues exactly
\* one submit-move call whose token is the digits fr, fc, tr, tc in that order.
C12_MovementClick ==
    [][(/\ lastEvent'.a = "handleSpotClick" /\ lastEvent'.input # Null
        /\ Idle /\ AtLivePosition /\ ~PlacingPhase
        /\ Truthy(selectedSpot) /\ ClickedVal = "")
       => SubmitsMove(<<Digit(selectedSpot.r), Digit(selectedSpot.c),
                        Digit(lastEvent'.input.r), Digit(lastEvent'.input.c)>>)]_vars

\* the white-space-separated tokens of a text, stated on their own: a token
\* is a maximal run of characters that are not white space
TokenRuns(str) ==
    {ij \in (1..Len(str)) \X (1..Len(str)) :
        /\ ij[1] <= ij[2]
        /\ \A k \in ij[1]..ij[2] : str[k] \notin {" ", "\n", "\t"}
        /\ ij[1] = 1 \/ str[ij[1] - 1] \in {" ", "\n", "\t"}
        /\ ij[2] = Len(str) \/ str[ij[2] + 1] \in {" ", "\n", "\t"}}
TokensOf(str) ==
    LET runs == TokenRuns(str)
        Nth(k) == CHOOSE ij \in runs : Cardinality({x \in runs : x[1] < ij[1]}) = k - 1
    IN [k \in 1..Cardinality(runs) |-> SubSeq(str, Nth(k)[1], Nth(k)[2])]
NoPeriodAtEnd(m) == m[Len(m)] # "."
RECURSIVE JoinSpace(_)
JoinSpace(toks) ==
    IF toks = <<>> THEN <<>>
    ELSE IF Len(toks) = 1 THEN toks[1]
         ELSE toks[1] \o <<" ">> \o JoinSpace(Tail(toks))

\* C13: parsePGN returns, in order, exactly the white-space-separated
\* non-empty tokens of its input that do not end in a period; an empty, a
\* missing or a white-space-only input gives the empty sequence; parsing the
\* space-joined result again gives the same sequence.
C13_ParsePGN ==
    moves # NotParsed
    => /\ moves.list = IF historyText = undefinedStr THEN <<>>
                       ELSE SelectSeq(TokensOf(historyText), NoPeriodAtEnd)
       /\ (\/ historyText = undefinedStr
           \/ \A k \in DOMAIN historyText : historyText[k] \in {" ", "\n", "\t"})
          => moves.list = <<>>
       /\ parsePGN(JoinSpace(moves.list)) = moves.list

\* "1. 12" was parsed: the label is dropped and the move "12" is kept
C13_Witness ==
    /\ historyText = <<"1", ".", " ", "1", "2">>
    /\ moves # NotParsed /\ moves.list = << <<"1", "2">> >>

\* C14: in every reachable state the viewed snapshot is defined if and only
\* if a seek has completed successfully for the current session; a viewed
\* snapshot is never one obtained for a previous session.
C14_ViewedIffSeekDone ==
    /\ (viewedGameState # Null) <=> seekDone
    /\ viewedGameState # Null
       => Truthy(gameId) /\ viewedGameState.req.game = gameId.n

\* C15: isRequestPending is true in every state in which a remote call of an
\* operation (its chained live fetch and silent seek included) is outstanding
\* and false in every state in which no operation is in flight; it is cleared
\* only by the step in which the operation returns.
C15_PendingWhileInFlight ==
    /\ [](inflight # <<>> => isRequestPending)
    /\ [](inflight = <<>> => ~isRequestPending)
    /\ [][(isRequestPending /\ ~isRequestPending')
          => /\ lastEvent'.a = "settle" /\ lastEvent'.returned
             /\ inflight' = <<>>]_vars

\* the chained live fetch of an accepted move is outstanding
C15_Witness ==
    /\ isRequestPending /\ Len(inflight) = 1
    /\ inflight[1].op = "makeMove" /\ inflight[1].pc = "fetch"
    /\ inflight[1].calls = <<"move", "fetch">>

\* the coroutine that issued the remote calls of this step
IssuingTask ==
    IF lastEvent'.a = "settle" THEN inflight'[lastEvent'.i] ELSE inflight'[Len(inflight')]

\* C16: every seek request carries an index in 0..totalMoves as the client
\* knows it at the time of the call: an explicit seek whose target is below 0
\* is sent as 0, one whose target is above totalMoves is sent as totalMoves,
\* any other as it is, and none is refused for being out of range.
C16_SeekIndexClamped ==
    [][/\ (\E k \in DOMAIN lastEvent'.issued : lastEvent'.issued[k] = "seek")
          => /\ IssuingTask.pc = "seek"
             /\ IssuingTask.idx \in 0..totalMoves'
       /\ lastEvent'.a = "seekToMove"
          => /\ lastEvent'.issued = <<"seek">>
             /\ UNCHANGED totalMoves
             /\ IssuingTask.idx = IF lastEvent'.input.n < 0 THEN 0
                                  ELSE IF lastEvent'.input.n > totalMoves THEN totalMoves
                                  ELSE lastEvent'.input.n
       /\ (Idle /\ Truthy(gameId)) => lastEvent'.a # "refused"]_vars

\* a seek to totalMoves + 1 was asked for and the index totalMoves was sent
C16_Witness ==
    /\ lastEvent.a = "seekToMove" /\ lastEvent.input.n = totalMoves + 1
    /\ totalMoves > 0
    /\ Len(inflight) = 1 /\ inflight[1].pc = "seek" /\ inflight[1].idx = totalMoves

\* C17: an explicit seek, whatever its outcome, leaves liveGameState,
\* totalMoves, gameId and the selection unchanged: neither the step that
\* issues the call nor the step in which the call settles changes them, and
\* when the seek returns the first three are what they were when it was
\* invoked.
C17_ExplicitSeekFrame ==
    [][/\ lastEvent'.a = "seekToMove"
          => UNCHANGED <<liveGameState, totalMoves, gameId, selectedSpot>>
       /\ (lastEvent'.a = "settle" /\ Settled.op = "seekToMove")
          => /\ UNCHANGED <<liveGameState, totalMoves, gameId, selectedSpot>>
             /\ lastEvent'.issued = <<>> /\ lastEvent'.returned
             /\ gameId' = Settled.pre[1] /\ liveGameState' = Settled.pre[2]
             /\ totalMoves' = Settled.pre[5]]_vars

\* an explicit seek to an earlier position has succeeded
C17_Witness ==
    /\ lastEvent.a = "settle" /\ lastEvent.pc = "seek" /\ lastEvent.out = "ok"
    /\ liveGameState # Null /\ viewedGameState # Null
    /\ viewedGameState.req.index = currentMoveIndex /\ currentMoveIndex < totalMoves

\* C18: when the remote rejects a submitted move (a non-success response),
\* the selection becomes None, isRequestPending is cleared, the operation
\* issues no further remote call, and liveGameState, viewedGameState,
\* totalMoves and currentMoveIndex are unchanged.
C18_RejectedMove ==
    [][Settles("move", "reject")
       => /\ selectedSpot' = Null
          /\ ~isRequestPending'
          /\ lastEvent'.issued = <<>> /\ lastEvent'.returned
          /\ Settled.calls = <<"move">> /\ inflight' = RemoveAt(inflight, lastEvent'.i)
          /\ UNCHANGED <<gameId, liveGameState, viewedGameState, totalMoves,
                         currentMoveIndex>>
          /\ <<gameId', liveGameState', viewedGameState', currentMoveIndex',
               totalMoves'>> = Settled.pre]_vars

\* a submitted move was rejected and the machine is Idle again
C18_Witness ==
    /\ lastEvent.a = "settle" /\ lastEvent.pc = "move" /\ lastEvent.out = "reject"
    /\ lastEvent.returned /\ Idle /\ selectedSpot = Null
    /\ viewedGameState # Null /\ viewedGameState.goats_placed = 20

\* the session a value of gameId names: null and undefined both name none
SessionId(id) == IF Truthy(id) THEN id ELSE Null

\* C19: when the create call of a new game fails, by a transport failure or
\* by a non-success response, the operation returns to Idle with the
\* selection and gameId unchanged.
C19_FailedCreateKeepsSession ==
    [][(Settles("create", "throw") \/ Settles("create", "reject"))
       => /\ lastEvent'.returned /\ ~isRequestPending' /\ inflight' = <<>>
          /\ UNCHANGED selectedSpot
          /\ SessionId(gameId') = SessionId(gameId)
          /\ SessionId(gameId') = SessionId(Settled.pre[1])]_vars

\* C20: after an undo that the remote accepts, liveGameState is the returned
\* snapshot, totalMoves is the length of its move record and a seek to
\* totalMoves is issued; when the operation returns, currentMoveIndex =
\* totalMoves and viewedGameState is the snapshot that seek returned.
C20_AcceptedUndoResyncs ==
    [][/\ Settles("undo", "ok")
          => /\ liveGameState' \in LiveSnapshots
             /\ totalMoves' = Len(SelectSeq(TokensOf(liveGameState'.pgn), NoPeriodAtEnd))
             /\ lastEvent'.issued = <<"seek">>
             /\ IssuingTask.pc = "seek" /\ IssuingTask.idx = totalMoves'
       /\ (Returns("undoMove") /\ SettledOuts[1] = "ok")
          => /\ currentMoveIndex' = totalMoves'
             /\ viewedGameState' # Null
             /\ viewedGameState'.req = [kind |-> "seek", game |-> gameId'.n,
                                        index |-> totalMoves']]_vars

\* C21: after a new game or a load whose create/load call and live fetch both
\* succeed, a seek request for index totalMoves is issued, and when the
\* operation returns viewedGameState is the snapshot that seek returned for
\* the new session and currentMoveIndex = totalMoves.
C21_NewGameRefreshes ==
    [][/\ (/\ Settles("fetch", "ok")
           /\ Settled.op \in {"startNewGame", "executeLoad"}
           /\ Settled.outs = <<"ok">>)
          => /\ lastEvent'.issued = <<"seek">>
             /\ IssuingTask.pc = "seek" /\ IssuingTask.idx = totalMoves'
       /\ (/\ Returns("startNewGame") \/ Returns("executeLoad")
           /\ Len(SettledOuts) >= 2
           /\ SettledOuts[1] = "ok" /\ SettledOuts[2] = "ok")
          => /\ currentMoveIndex' = totalMoves'
             /\ viewedGameState' # Null
             /\ viewedGameState'.req = [kind |-> "seek", game |-> gameId'.n,
                                        index |-> totalMoves']]_vars

\* a click that handleSpotClick did not ignore, in the movement phase
MovementClick ==
    /\ lastEvent'.a = "handleSpotClick" /\ lastEvent'.input # Null
    /\ AtLivePosition /\ ~PlacingPhase
OwnPiece == ClickedVal = viewedGameState.turn
OpposingPiece == ClickedVal # "" /\ ClickedVal # viewedGameState.turn

\* C22: in the movement phase at the live position a board click resolves as
\* follows.  With no selection: a cell occupied by the side to move becomes
\* the selection; an opposing piece or an empty cell leaves the selection None
\* and issues no remote call.  With p selected: clicking p gives None;
\* clicking another piece of the side to move makes it the selection;
\* clicking an opposing piece leaves the selection at p and issues no remote
\* call; a move is submitted only by a click on an empty cell.
C22_MovementClickResolution ==
    [][MovementClick
       => /\ UNCHANGED <<gameId, liveGameState, viewedGameState, currentMoveIndex,
                         totalMoves>>
          /\ (~Truthy(selectedSpot) /\ OwnPiece)
             => selectedSpot' = lastEvent'.input /\ lastEvent'.issued = <<>>
          /\ (~Truthy(selectedSpot) /\ ~OwnPiece)
             => selectedSpot' = Null /\ lastEvent'.issued = <<>>
                /\ lastEvent'.token = <<>>
          /\ (Truthy(selectedSpot) /\ lastEvent'.input = selectedSpot)
             => selectedSpot' = Null /\ lastEvent'.issued = <<>>
          /\ (Truthy(selectedSpot) /\ lastEvent'.input # selectedSpot /\ OwnPiece)
             => selectedSpot' = lastEvent'.input /\ lastEvent'.issued = <<>>
          /\ (Truthy(selectedSpot) /\ lastEvent'.input # selectedSpot /\ OpposingPiece)
             => selectedSpot' = selectedSpot /\ lastEvent'.issued = <<>>
                /\ lastEvent'.token = <<>>
          /\ lastEvent'.issued # <<>>
             => /\ Truthy(selectedSpot) /\ lastEvent'.input # selectedSpot
                /\ ClickedVal = ""
                /\ lastEvent'.issued = <<"move">>
                /\ lastEvent'.token = moveStr(selectedSpot, lastEvent'.input.r,
                                              lastEvent'.input.c)]_vars

\* with the goat at (2,3) selected, the tiger at (1,1) was clicked and the
\* selection stayed
C22_Witness ==
    /\ lastEvent.a = "handleSpotClick" /\ lastEvent.input = Spot(1, 1)
    /\ selectedSpot = Spot(2, 3) /\ lastEvent.issued = <<>>
    /\ viewedGameState # Null /\ viewedGameState.turn = "G"
    /\ viewedGameState.goats_placed = 20 /\ currentMoveIndex = totalMoves

\* C23: in every reachable state totalMoves is the number of move tokens in
\* the move record of liveGameState, and 0 when there is no live snapshot.
C23_TotalMovesIsRecordLength ==
    totalMoves = IF liveGameState # Null /\ liveGameState.kind = "snap"
                 THEN Len(SelectSeq(TokensOf(liveGameState.pgn), NoPeriodAtEnd))
                 ELSE 0

\* the live record "1. 12 5544" holds one label and two moves
C23_Witness ==
    /\ liveGameState # Null /\ liveGameState.kind = "snap"
    /\ liveGameState.pgn = <<"1", ".", " ", "1", "2", " ", "5", "5", "4", "4">>
    /\ totalMoves = 2

\* C24: in every Idle state in which viewedGameState is defined, it is the
\* snapshot the remote returned for a seek to index currentMoveIndex.
C24_ViewedMatchesIndex ==
    (Idle /\ viewedGameState # Null)
    => /\ viewedGameState.req.kind = "seek"
       /\ viewedGameState.req.index = currentMoveIndex

====
